---- MODULE Spec2Model ----
(***************************************************************************)
(* A model of eulerbutcooler/http-from-scratch: the header table           *)
(* (internal/headers/headers.go), the request parser and its driving loop  *)
(* (internal/request/request.go), the handler of the HTTP server          *)
(* (cmd/tcplistener/main.go) and the line reader getLinesChannel          *)
(* (main.go).  Byte strings are sequences of byte                         *)
(* codes (ASCII), so that case folding, trimming, splitting and the token  *)
(* class are computed as the Go code computes them.                        *)
(***************************************************************************)
EXTENDS Integers, Sequences, FiniteSets, TLC

VARIABLES
    src,          \* the bytes the io.Reader will deliver, in order
    srcPos,       \* how many of them have been read so far
    buf,          \* buf[:bufLen] of RequestFromReader / the caller's retained bytes
    state,        \* Request.state
    RequestLine,  \* Request.RequestLine
    headers,      \* the header table (Headers.headers, a Go map)
    body,         \* Request.body
    pc,           \* where the running function is
    err,          \* the error the running function returned ("nil" if none)
    total,        \* sum of the byte counts reported by the successful parse calls so far
    setLog,       \* history: per lowercased name, the values passed to Set, in call order
    call,         \* the last call of a pure function, with its arguments and results
    ops,          \* number of table operations made so far
    written,      \* the calls the handler has made on its response.Writer, in order
    fullBody,     \* fullBody of the handler: the upstream bytes it has forwarded
    out,          \* the channel of getLinesChannel: its queue and how often it was closed
    str,          \* str of getLinesChannel: the line accumulated so far
    sent,         \* history: the strings sent on the channel, in order
    lines,        \* the strings the consumer has received from the channel, in order
    cpc           \* where the consumer ranging over the channel is

\* the variables of the handler and of getLinesChannel
handlerVars == <<written, fullBody>>
lineVars == <<out, str, sent, lines, cpc>>

vars == <<src, srcPos, buf, state, RequestLine, headers, body, pc, err,
          total, setLog, call, ops, handlerVars, lineVars>>

\* make(chan string, 1), nothing sent yet
NewChannel == [q |-> <<>>, closes |-> 0]

\* no handler and no line reader is running
NoHandlerNoLines ==
    /\ written = <<>>
    /\ fullBody = <<>>
    /\ out = NewChannel
    /\ str = <<>>
    /\ sent = <<>>
    /\ lines = <<>>
    /\ cpc = "none"

-----------------------------------------------------------------------------
(* Bytes *)

CR == 13
LF == 10
SP == 32
COLON == 58
SLASH == 47
UpperA == 65
UpperZ == 90
LowerA == 97
LowerZ == 122
Digit0 == 48
Digit9 == 57

rn == <<CR, LF>>
SEPARATOR == <<CR, LF>>

\* "HTTP", "1.1" and "content-length" as bytes
HTTP == <<72, 84, 84, 80>>
V11 == <<49, 46, 49>>
ContentLengthKey == <<99, 111, 110, 116, 101, 110, 116, 45, 108, 101, 110, 103, 116, 104>>

\* ! # $ % & ' * + - . ^ _ ` | ~
TokenPunct == {33, 35, 36, 37, 38, 39, 42, 43, 45, 46, 94, 95, 96, 124, 126}

nil == "nil"
EOF == "EOF"
ERROR_MALFORMED_REQUESTLINE == "malformed request-line"
ERROR_UNSUPPORTED_HTTP_VERSION == "unsupported http version"
ErrMalformedHeaderName == "malformed header name"
ErrMalformedFieldName == "malformed field name"
ErrMalformedFieldLine == "malformed field line"

Min2(a, b) == IF a < b THEN a ELSE b

SetMin(S) == CHOOSE x \in S : \A y \in S : x <= y

SetMax(S) == CHOOSE x \in S : \A y \in S : x >= y

\* s[from:] with a 0-based offset, as a Go slice expression
Drop(s, from) == SubSeq(s, from + 1, Len(s))

\* s[:to]
Take(s, to) == SubSeq(s, 1, to)

\* bytes.Index: 0-based offset of the first occurrence of sep in s, or -1
Index(s, sep) ==
    IF \E i \in 0..(Len(s) - Len(sep)) : SubSeq(s, i + 1, i + Len(sep)) = sep
    THEN SetMin({i \in 0..(Len(s) - Len(sep)) : SubSeq(s, i + 1, i + Len(sep)) = sep})
    ELSE -1

\* number of occurrences of byte c in s
Count(s, c) == Cardinality({i \in 1..Len(s) : s[i] = c})

\* bytes.Split(s, <<c>>)[k], k 0-based: the bytes between the k-th and the (k+1)-th c
Part(s, c, k) ==
    LET at == {i \in 1..Len(s) : s[i] = c}
        before(i) == Cardinality({j \in at : j < i})
        first == IF k = 0 THEN 1 ELSE SetMin({i \in at : before(i) = k - 1}) + 1
        later == {i \in at : i >= first}
        last == IF later = {} THEN Len(s) ELSE SetMin(later) - 1
    IN SubSeq(s, first, last)

\* unicode.IsSpace on an ASCII byte: \t \n \v \f \r and space
IsSpace(c) == c \in {9, 10, 11, 12, 13, SP}

\* bytes.TrimSpace
TrimSpace(s) ==
    LET keep == {i \in 1..Len(s) : ~IsSpace(s[i])}
    IN IF keep = {} THEN <<>> ELSE SubSeq(s, SetMin(keep), SetMax(keep))

\* strings.ToLower on ASCII
ToLower(s) == [i \in 1..Len(s) |-> IF s[i] >= UpperA /\ s[i] <= UpperZ THEN s[i] + 32 ELSE s[i]]

\* bytes.HasSuffix(s, " ")
HasSuffixSP(s) == Len(s) > 0 /\ s[Len(s)] = SP

IsDigit(c) == c >= Digit0 /\ c <= Digit9

RECURSIVE DecValue(_)
DecValue(s) == IF s = <<>> THEN 0 ELSE 10 * DecValue(Take(s, Len(s) - 1)) + (s[Len(s)] - Digit0)

\* strconv.Atoi: an optional sign, then one or more decimal digits
Atoi(s) ==
    LET conv(signed, digits) ==
            IF Len(digits) > 0 /\ \A i \in 1..Len(digits) : IsDigit(digits[i])
            THEN [ok |-> TRUE,
                  value |-> IF signed /\ s[1] = 45 THEN 0 - DecValue(digits) ELSE DecValue(digits)]
            ELSE [ok |-> FALSE, value |-> 0]
    IN IF Len(s) > 0 /\ s[1] \in {43, 45} THEN conv(TRUE, Drop(s, 1)) ELSE conv(FALSE, s)

-----------------------------------------------------------------------------
(* package headers *)

NewHeaders == << >>

Get(h, name) == IF ToLower(name) \in DOMAIN h THEN h[ToLower(name)] ELSE <<>>

\* Set keyed by the name as given
SetKeepsCase(h, name, value) ==
    [k \in DOMAIN h \cup {name} |-> IF k = name THEN value ELSE h[k]]

Set(h, name, value) ==
    [k \in DOMAIN h \cup {ToLower(name)} |-> IF k = ToLower(name) THEN value ELSE h[k]]

isTokenChar(ch) ==
    \/ (ch > UpperA /\ ch < UpperZ)
    \/ (ch > LowerA /\ ch < LowerZ)
    \/ (ch > Digit0 /\ ch < Digit9)
    \/ ch \in TokenPunct

isToken(name) == \A i \in 1..Len(name) : isTokenChar(name[i])

parseHeader(fieldLine) ==
    LET cutAt(cut) ==
            IF cut # -1
            THEN IF ~isToken(Take(fieldLine, cut))
                 THEN [name |-> <<>>, value |-> <<>>, err |-> ErrMalformedHeaderName]
                 ELSE IF HasSuffixSP(Take(fieldLine, cut))
                 THEN [name |-> <<>>, value |-> <<>>, err |-> ErrMalformedFieldName]
                 ELSE [name |-> Take(fieldLine, cut),
                       value |-> TrimSpace(Drop(fieldLine, cut + 1)),
                       err |-> nil]
            ELSE [name |-> <<>>, value |-> <<>>, err |-> ErrMalformedFieldLine]
    IN cutAt(Index(fieldLine, <<COLON>>))

\* ParseFailure reporting the bytes of the lines parsed before the failing one
ParseFailureKeepsRead(h, read, e) == [n |-> read, done |-> FALSE, err |-> e, h |-> h]

\* what Parse returns when parseHeader fails after `read` bytes of complete lines
ParseFailure(h, read, e) == [n |-> 0, done |-> FALSE, err |-> e, h |-> h]

RECURSIVE ParseFrom(_, _, _)
ParseFrom(h, data, read) ==
    LET field(idx, f) ==
            IF f.err # nil THEN ParseFailure(h, read, f.err)
            ELSE ParseFrom(Set(h, f.name, f.value), data, read + idx + Len(rn))
        line(idx) ==
            IF idx = -1 THEN [n |-> read, done |-> FALSE, err |-> nil, h |-> h]
            ELSE IF idx = 0 THEN [n |-> read + Len(rn), done |-> TRUE, err |-> nil, h |-> h]
            ELSE field(idx, parseHeader(SubSeq(data, read + 1, read + idx)))
    IN line(Index(Drop(data, read), rn))

\* a Parse that reports the whole buffer consumed when the section is not over
ParseCountsWholeBuffer(h, data) ==
    LET got(p) == IF p.err = nil /\ ~p.done THEN [p EXCEPT !.n = Len(data)] ELSE p
    IN got(ParseFrom(h, data, 0))

\* Headers.Parse: the table is a Go map, so the entries stored before a failing
\* line stay stored; h is the table after the call.
Parse(h, data) == ParseFrom(h, data, 0)

-----------------------------------------------------------------------------
(* package request *)

StateInit == "init"
StateHeaders == "headers"
StateBody == "body"
StateDone == "done"

NoRequestLine == [HttpVersion |-> <<>>, RequestTarget |-> <<>>, Method |-> <<>>]

newRequest ==
    [state |-> StateInit, RequestLine |-> NoRequestLine, headers |-> NewHeaders, body |-> <<>>]

\* Headers.Get as headers.go has it returns the value alone; the caller sees the
\* zero value "" for a missing key, and Atoi("") fails, so a missing header and
\* an unparsable one both give defaultValue.
getInt(h, name, defaultValue) ==
    LET conv(exists, a) ==
            IF ~exists THEN defaultValue
            ELSE IF ~a.ok THEN defaultValue
            ELSE a.value
    IN conv(Get(h, name) # <<>>, Atoi(Get(h, name)))

\* lineRead without the separator's two bytes
lineReadNoSeparator(idx) == idx

\* the byte count parseRequestLine reports for a line that ends at offset idx
lineRead(idx) == idx + Len(SEPARATOR)

parseRequestLine(b) ==
    LET third(startLine, idx, version) ==
            IF \/ Count(version, SLASH) + 1 # 2
               \/ Part(version, SLASH, 0) # HTTP
               \/ Part(version, SLASH, 1) # V11
            THEN [rl |-> NoRequestLine, n |-> 0, err |-> ERROR_MALFORMED_REQUESTLINE]
            ELSE [rl |-> [Method |-> Part(startLine, SP, 0),
                          RequestTarget |-> Part(startLine, SP, 1),
                          HttpVersion |-> Part(version, SLASH, 1)],
                  n |-> lineRead(idx), err |-> nil]
        line(idx, startLine) ==
            IF idx = -1 THEN [rl |-> NoRequestLine, n |-> 0, err |-> nil]
            ELSE IF Count(startLine, SP) + 1 # 3
            THEN [rl |-> NoRequestLine, n |-> 0, err |-> ERROR_MALFORMED_REQUESTLINE]
            ELSE third(startLine, idx, Part(startLine, SP, 2))
        at(idx) == line(idx, Take(b, idx))
    IN at(Index(b, SEPARATOR))

\* One iteration of the loop of Request.parse in each state.  kind is "cont"
\* (next iteration), "return" (the call returns n, err) or "panic".
initStep(r, data, read) ==
    LET got(p) ==
            IF p.err # nil THEN [kind |-> "return", r |-> r, n |-> 0, err |-> p.err]
            ELSE IF p.n = 0 THEN [kind |-> "return", r |-> r, n |-> read, err |-> nil]
            ELSE [kind |-> "cont",
                  r |-> [r EXCEPT !.RequestLine = p.rl, !.state = StateHeaders],
                  n |-> read + p.n, err |-> nil]
    IN got(parseRequestLine(Drop(data, read)))

headersStep(r, data, read) ==
    LET got(p) ==
            IF p.err # nil
            THEN [kind |-> "return", r |-> [r EXCEPT !.headers = p.h], n |-> 0, err |-> p.err]
            ELSE IF p.n = 0
            THEN [kind |-> "return", r |-> [r EXCEPT !.headers = p.h], n |-> read, err |-> nil]
            ELSE [kind |-> "cont",
                  r |-> [r EXCEPT !.headers = p.h,
                                  !.state = IF p.done THEN StateBody ELSE r.state],
                  n |-> read + p.n, err |-> nil]
    IN got(Parse(r.headers, Drop(data, read)))

\* bodyStep with the Content-Length ignored: whatever is buffered becomes the body
bodyStepReadsRest(r, data, read) ==
    [kind |-> "cont",
     r |-> [r EXCEPT !.body = r.body \o Drop(data, read), !.state = StateDone],
     n |-> Len(data), err |-> nil]

bodyStep(r, data, read) ==
    LET append(length, toRead, body1) ==
            [kind |-> "cont",
             r |-> [r EXCEPT !.body = body1,
                             !.state = IF Len(body1) = length THEN StateDone ELSE r.state],
             n |-> read + toRead, err |-> nil]
        take(length, currentData, toRead) ==
            IF toRead < 0 THEN [kind |-> "panic", r |-> r, n |-> read, err |-> nil]
            ELSE append(length, toRead, r.body \o Take(currentData, toRead))
        with(length, currentData) ==
            IF length = 0
            THEN [kind |-> "cont", r |-> [r EXCEPT !.state = StateDone], n |-> read, err |-> nil]
            ELSE take(length, currentData, Min2(length - Len(r.body), Len(currentData)))
    IN with(getInt(r.headers, ContentLengthKey, 0), Drop(data, read))

\* a parser that swallows whatever it is given once it is done
parseStepDoneSwallows(r, data, read) ==
    CASE r.state = StateInit -> initStep(r, data, read)
      [] r.state = StateHeaders -> headersStep(r, data, read)
      [] r.state = StateBody -> bodyStep(r, data, read)
      [] r.state = StateDone -> [kind |-> "return", r |-> r, n |-> Len(data), err |-> nil]

\* a parser that starts over on the next request once it is done
parseStepDoneStartsOver(r, data, read) ==
    CASE r.state = StateInit -> initStep(r, data, read)
      [] r.state = StateHeaders -> headersStep(r, data, read)
      [] r.state = StateBody -> bodyStep(r, data, read)
      [] r.state = StateDone -> initStep(newRequest, data, read)

parseStep(r, data, read) ==
    CASE r.state = StateInit -> initStep(r, data, read)
      [] r.state = StateHeaders -> headersStep(r, data, read)
      [] r.state = StateBody -> bodyStep(r, data, read)
      [] r.state = StateDone -> [kind |-> "return", r |-> r, n |-> read, err |-> nil]

\* Request.parse: the loop run to its end.  An iteration that continues and
\* leaves r and read as they were repeats forever: kind "spin".
RECURSIVE parseFrom(_, _, _)
parseFrom(r, data, read) ==
    LET after(s) ==
            IF s.kind # "cont" THEN s
            ELSE IF s.r = r /\ s.n = read THEN [s EXCEPT !.kind = "spin"]
            ELSE parseFrom(s.r, data, s.n)
    IN after(parseStep(r, data, read))

parse(r, data) == parseFrom(r, data, 0)

-----------------------------------------------------------------------------
(* The byte streams the reader delivers *)

\* POST /a HTTP/1.1\r\nContent-Length: 5\r\n\r\nhello
ReqPostHello ==
    <<80, 79, 83, 84, 32, 47, 97, 32, 72, 84, 84, 80, 47, 49, 46, 49, 13, 10, 67, 111, 110, 116, 101, 110, 116, 45, 76, 101, 110, 103, 116, 104, 58, 32, 53, 13, 10, 13, 10, 104, 101, 108, 108, 111>>

\* GET / HTTP/1.1\r\n\r\n
ReqGetBare ==
    <<71, 69, 84, 32, 47, 32, 72, 84, 84, 80, 47, 49, 46, 49, 13, 10, 13, 10>>

\* GET /x HTTP/1.1\r\nHost: h\r\nHost: i\r\n\r\n
ReqGetHost ==
    <<71, 69, 84, 32, 47, 120, 32, 72, 84, 84, 80, 47, 49, 46, 49, 13, 10, 72, 111, 115, 116, 58, 32, 104, 13, 10, 72, 111, 115, 116, 58, 32, 105, 13, 10, 13, 10>>

\* GET / HTTP/1.1\r\nHost: h\r\nAccept: y\r\n\r\n
ReqGetAccept ==
    <<71, 69, 84, 32, 47, 32, 72, 84, 84, 80, 47, 49, 46, 49, 13, 10, 72, 111, 115, 116, 58, 32, 104, 13, 10, 65, 99, 99, 101, 112, 116, 58, 32, 121, 13, 10, 13, 10>>

\* PUT /b HTTP/1.1\r\nHost: h\r\nContent-Length: 2\r\n\r\nok
ReqPostTwo ==
    <<80, 85, 84, 32, 47, 98, 32, 72, 84, 84, 80, 47, 49, 46, 49, 13, 10, 72, 111, 115, 116, 58, 32, 104, 13, 10, 67, 111, 110, 116, 101, 110, 116, 45, 76, 101, 110, 103, 116, 104, 58, 32, 50, 13, 10, 13, 10, 111, 107>>

\* GET / HTTP/1.1\r\nContent-Length: 0\r\n\r\n
ReqZeroLength ==
    <<71, 69, 84, 32, 47, 32, 72, 84, 84, 80, 47, 49, 46, 49, 13, 10, 67, 111, 110, 116, 101, 110, 116, 45, 76, 101, 110, 103, 116, 104, 58, 32, 48, 13, 10, 13, 10>>

\* GET / HTTP/1.1\r\nHost: h\r\n\r\nxy
ReqNoLengthThenBytes ==
    <<71, 69, 84, 32, 47, 32, 72, 84, 84, 80, 47, 49, 46, 49, 13, 10, 72, 111, 115, 116, 58, 32, 104, 13, 10, 13, 10, 120, 121>>

\* GET / HTTP/1.1\r\nContent-Length: 0\r\n\r\nxy
ReqZeroLengthThenBytes ==
    <<71, 69, 84, 32, 47, 32, 72, 84, 84, 80, 47, 49, 46, 49, 13, 10, 67, 111, 110, 116, 101, 110, 116, 45, 76, 101, 110, 103, 116, 104, 58, 32, 48, 13, 10, 13, 10, 120, 121>>

\* GET / HTTP/1.1\r\nContent-Length: x1\r\n\r\nxy
ReqBadLengthThenBytes ==
    <<71, 69, 84, 32, 47, 32, 72, 84, 84, 80, 47, 49, 46, 49, 13, 10, 67, 111, 110, 116, 101, 110, 116, 45, 76, 101, 110, 103, 116, 104, 58, 32, 120, 49, 13, 10, 13, 10, 120, 121>>

\* GET / HTTP/1.1\r\nContent-Length:\r\n\r\nxy
ReqEmptyLengthThenBytes ==
    <<71, 69, 84, 32, 47, 32, 72, 84, 84, 80, 47, 49, 46, 49, 13, 10, 67, 111, 110, 116, 101, 110, 116, 45, 76, 101, 110, 103, 116, 104, 58, 13, 10, 13, 10, 120, 121>>

\* GET / HTTP/1.1\r\nContent-Length: -1\r\n\r\nxy
ReqNegativeLength ==
    <<71, 69, 84, 32, 47, 32, 72, 84, 84, 80, 47, 49, 46, 49, 13, 10, 67, 111, 110, 116, 101, 110, 116, 45, 76, 101, 110, 103, 116, 104, 58, 32, 45, 49, 13, 10, 13, 10, 120, 121>>

\* GET /x HTTP/1.0\r\nHost: h\r\n\r\n
ReqOldVersion ==
    <<71, 69, 84, 32, 47, 120, 32, 72, 84, 84, 80, 47, 49, 46, 48, 13, 10, 72, 111, 115, 116, 58, 32, 104, 13, 10, 13, 10>>

\* GET /x\r\nHost: h\r\n\r\n
ReqTwoTokens ==
    <<71, 69, 84, 32, 47, 120, 13, 10, 72, 111, 115, 116, 58, 32, 104, 13, 10, 13, 10>>

\* GET / HTTP/1.1\r\nHost: h\r\nH@st: i\r\n\r\n
ReqBadHeader ==
    <<71, 69, 84, 32, 47, 32, 72, 84, 84, 80, 47, 49, 46, 49, 13, 10, 72, 111, 115, 116, 58, 32, 104, 13, 10, 72, 64, 115, 116, 58, 32, 105, 13, 10, 13, 10>>

\* POST /a HTTP/1.1\r\nContent-Length: 5\r\n\r\nhel
ReqTruncated ==
    <<80, 79, 83, 84, 32, 47, 97, 32, 72, 84, 84, 80, 47, 49, 46, 49, 13, 10, 67, 111, 110, 116, 101, 110, 116, 45, 76, 101, 110, 103, 116, 104, 58, 32, 53, 13, 10, 13, 10, 104, 101, 108>>

\* request line, header lines, empty line, exactly Content-Length body bytes
\* GET / HTTP/1.1\r\nHo
ReqCutInHeaders ==
    <<71, 69, 84, 32, 47, 32, 72, 84, 84, 80, 47, 49, 46, 49, 13, 10, 72, 111>>

\* Streams of the wire format (request line, header lines, empty line, exactly
\* Content-Length body bytes) whose header names isToken accepts.
ValidStreams ==
    {ReqPostHello, ReqGetBare, ReqGetHost, ReqPostTwo, ReqZeroLength}

\* Streams whose Content-Length is absent, not an integer, or zero.
NoBodyStreams ==
    {ReqGetBare, ReqGetHost, ReqZeroLength, ReqNoLengthThenBytes,
     ReqZeroLengthThenBytes, ReqBadLengthThenBytes, ReqEmptyLengthThenBytes}

\* the largest number of bytes one Read delivers, unless it delivers all that is left
MaxRead == 3

\* make([]byte, 1024)
BufSize == 1024

\* GET /xx...x HTTP/1.1\r\n\r\n, a valid request whose target alone has as many
\* bytes as the read buffer, so that its request line is longer than the buffer
ReqLongTarget ==
    <<71, 69, 84, 32, 47>> \o [i \in 1..BufSize |-> 120]
        \o <<32, 72, 84, 84, 80, 47, 49, 46, 49, 13, 10, 13, 10>>

Streams ==
    ValidStreams \cup
    {ReqGetAccept,
     ReqLongTarget,
     ReqCutInHeaders,
     ReqNoLengthThenBytes,
     ReqZeroLengthThenBytes,
     ReqBadLengthThenBytes,
     ReqEmptyLengthThenBytes,
     ReqNegativeLength,
     ReqOldVersion,
     ReqTwoTokens,
     ReqBadHeader,
     ReqTruncated}

-----------------------------------------------------------------------------
(* RequestFromReader *)

Req == [state |-> state, RequestLine |-> RequestLine, headers |-> headers, body |-> body]

NoCall == [op |-> "none"]

Init ==
    /\ src \in Streams
    /\ srcPos = 0
    /\ buf = <<>>
    /\ state = newRequest.state
    /\ RequestLine = newRequest.RequestLine
    /\ headers = newRequest.headers
    /\ body = newRequest.body
    /\ pc = "loop"
    /\ err = nil
    /\ total = 0
    /\ setLog = << >>
    /\ call = NoCall
    /\ ops = 0
    /\ NoHandlerNoLines

\* The byte counts a Read into buf[bufLen:] may return with a nil error: at most
\* what is left of the stream and at most len(buf[bufLen:]), and no bytes at
\* all only when that slice is empty.
ReadSizes ==
    {n \in (0..MaxRead) \cup {Min2(Len(src) - srcPos, BufSize - Len(buf))} :
        /\ n <= Len(src) - srcPos
        /\ n <= BufSize - Len(buf)
        /\ n = 0 => BufSize - Len(buf) = 0}

\* a loop that forgets to shift the buffer down
RetainedKeepsAll(filled, readN) == filled

\* copy(buf, buf[readN:bufLen]); bufLen -= readN
Retained(filled, readN) == Drop(filled, readN)

\* One iteration of the loop: Read, parse, shift the unconsumed bytes down.
ReadAndParse ==
    /\ pc = "loop"
    /\ \E n \in ReadSizes :
       \E filled \in {buf \o SubSeq(src, srcPos + 1, srcPos + n)} :
       \E p \in {parse(Req, filled)} :
           /\ srcPos' = srcPos + n
           /\ state' = p.r.state
           /\ RequestLine' = p.r.RequestLine
           /\ headers' = p.r.headers
           /\ body' = p.r.body
           /\ call' = [op |-> "parse", data |-> filled, n |-> p.n, err |-> p.err, kind |-> p.kind]
           /\ err' = p.err
           /\ buf' = IF p.kind = "return" /\ p.err = nil THEN Retained(filled, p.n) ELSE filled
           /\ pc' = CASE p.kind = "spin" -> "spin"
                      [] p.kind = "panic" -> "panic"
                      [] p.kind = "return" /\ p.err # nil -> "failed"
                      [] p.kind = "return" /\ p.err = nil /\ p.r.state = StateDone -> "returned"
                      [] OTHER -> "loop"
           /\ total' = IF p.kind = "return" /\ p.err = nil THEN total + p.n ELSE total
    /\ UNCHANGED <<src, setLog, ops>>
    /\ UNCHANGED <<handlerVars, lineVars>>

\* The reader is exhausted: Read returns io.EOF and RequestFromReader nil, err.
ReadEOF ==
    /\ pc = "loop"
    /\ srcPos = Len(src)
    /\ pc' = "failed"
    /\ err' = EOF
    /\ UNCHANGED <<src, srcPos, buf, state, RequestLine, headers, body, total, setLog, call, ops>>
    /\ UNCHANGED <<handlerVars, lineVars>>

Next == ReadAndParse \/ ReadEOF

Spec == Init /\ [][Next]_vars

-----------------------------------------------------------------------------
(* Properties of RequestFromReader, checked under Spec *)

\* offset of the first byte after the empty line that ends the header section
HeaderEnd(s) == Index(s, rn \o rn) + Len(rn \o rn)

\* the bytes of the stream that follow the header section
BodyOf(s) == Drop(s, HeaderEnd(s))

\* the bytes parse has reported consumed so far
Consumed == srcPos - Len(buf)

(* C1: for every valid request stream and every way of splitting it into reads, *)
(* RequestFromReader does not fail or hang, and when it returns the Request is  *)
(* in Done and equals the Request a single read of the whole stream gives, its  *)
(* body is the bytes after the header section and no byte stays buffered.       *)
C1_SplitReadsEqualSingleRead ==
    src \in ValidStreams =>
        /\ pc \notin {"failed", "spin", "panic"}
        /\ pc = "returned" =>
              /\ state = StateDone
              /\ Req = parse(newRequest, src).r
              /\ body = BodyOf(src)
              /\ buf = <<>>

(* C10: when Content-Length is absent, not an integer, or zero, the parser is in *)
(* Done exactly when it has consumed the bytes up to and including the empty     *)
(* line, it never consumes a byte after the empty line, and the body is empty.   *)
C10_NoBodyDoneAtEmptyLine ==
    src \in NoBodyStreams =>
        /\ body = <<>>
        /\ Consumed <= HeaderEnd(src)
        /\ (Consumed = HeaderEnd(src)) <=> (state = StateDone)

\* an unparsable Content-Length, Done reached with the bytes after the empty line
\* still in the buffer
C10_Witness ==
    /\ src = ReqBadLengthThenBytes
    /\ pc = "returned"
    /\ state = StateDone
    /\ Len(buf) = 2

(* C14: at every iteration of the loop the bytes parse has reported consumed,  *)
(* followed by the retained buffer, are the bytes read so far; every parse call *)
(* that returns reports a count between 0 and the length of the buffer it was   *)
(* given; and the buffer a parse call is given is the bytes read so far less    *)
(* the bytes reported consumed before it, so it starts with the retained bytes. *)
C14_ConsumedThenRetainedIsRead ==
    /\ Take(src, total) \o buf = Take(src, srcPos)
    /\ call.op = "parse" =>
          /\ call.kind = "return" => call.n >= 0 /\ call.n <= Len(call.data)
          /\ call.data =
                Drop(Take(src, srcPos),
                     IF call.kind = "return" /\ call.err = nil THEN total - call.n ELSE total)
          /\ call.kind = "return" /\ call.err = nil => buf = Drop(call.data, call.n)

\* a later parse call consumed part of its buffer and a non-empty rest is retained
C14_Witness ==
    /\ call.op = "parse"
    /\ call.kind = "return"
    /\ call.err = nil
    /\ call.n > 0
    /\ total > call.n
    /\ Len(buf) > 0
    /\ pc = "loop"

-----------------------------------------------------------------------------
(* RequestFromReader on a reader that may fail at any read *)

\* an error of the reader other than io.EOF
ErrRead == "read: connection reset by peer"

\* a loop that returns the Request parsed so far when the read fails
ReadErrorReturnsRequest ==
    /\ pc = "loop"
    /\ pc' = "returned"
    /\ err' = ErrRead
    /\ UNCHANGED <<src, srcPos, buf, state, RequestLine, headers, body, total, setLog, call, ops>>
    /\ UNCHANGED <<handlerVars, lineVars>>

\* reader.Read returns an error: RequestFromReader returns nil, err.
ReadError ==
    /\ pc = "loop"
    /\ pc' = "failed"
    /\ err' = ErrRead
    /\ UNCHANGED <<src, srcPos, buf, state, RequestLine, headers, body, total, setLog, call, ops>>
    /\ UNCHANGED <<handlerVars, lineVars>>

NextReader == ReadAndParse \/ ReadEOF \/ ReadError

SpecReader == Init /\ [][NextReader]_vars

\* what RequestFromReader returns, once it has returned
Returned ==
    [request |-> IF pc = "returned" THEN Req ELSE nil,
     err |-> IF pc = "returned" THEN nil ELSE err]

(* C15: when the reader reports an error or EOF before the parser is in Done,   *)
(* RequestFromReader returns that error and no Request; a Request is returned   *)
(* only in Done and without an error.                                           *)
C15_ReadFailureReturnsNoRequest ==
    /\ err \in {EOF, ErrRead} =>
          /\ pc = "failed"
          /\ state # StateDone
          /\ Returned = [request |-> nil, err |-> err]
    /\ pc = "returned" => state = StateDone /\ err = nil

\* the reader failed after the request line and a header line had been parsed
C15_Witness ==
    /\ pc = "failed"
    /\ err = ErrRead
    /\ state = StateHeaders
    /\ RequestLine # NoRequestLine
    /\ headers # NewHeaders

-----------------------------------------------------------------------------
(* RequestFromReader on a reader that returns bytes together with an error *)

\* reader.Read returns n > 0 bytes and an error in the same call (io.EOF with the
\* last bytes of the stream, or a read error): the bytes are in buf[bufLen:], but
\* the error is tested first and RequestFromReader returns nil, err without
\* adding n to bufLen or calling parse.
ReadWithError ==
    /\ pc = "loop"
    /\ \E n \in ReadSizes \ {0} :
       \E e \in {ErrRead} \cup (IF srcPos + n = Len(src) THEN {EOF} ELSE {}) :
           /\ srcPos' = srcPos + n
           /\ err' = e
    /\ pc' = "failed"
    /\ UNCHANGED <<src, buf, state, RequestLine, headers, body, total, setLog, call, ops>>
    /\ UNCHANGED <<handlerVars, lineVars>>

NextFinalRead == ReadAndParse \/ ReadEOF \/ ReadWithError

SpecFinalRead == Init /\ [][NextFinalRead]_vars

(* C23: when the reader has delivered all bytes of a valid request,             *)
(* RequestFromReader has not failed, also when the read that delivered the last *)
(* bytes reported EOF or another error in the same call.                        *)
C23_FinalBytesWithErrorAreParsed ==
    (src \in ValidStreams /\ srcPos = Len(src)) => pc # "failed"

-----------------------------------------------------------------------------
(* Properties of the read buffer, checked under Spec *)

(* C18: the loop always has room to read into: whenever it is about to read, the *)
(* retained bytes leave part of the buffer unused.                               *)
C18_BufferHasRoom ==
    pc = "loop" => Len(buf) < BufSize

-----------------------------------------------------------------------------
(* Request.parse called directly, one loop iteration at a time *)

\* The buffers a caller passes to parse: whole requests, single lines, pieces of
\* lines, body pieces, and a body tail followed by another request.
CallBuffers ==
    {<<>>,
     ReqPostHello, ReqTruncated, ReqGetBare, ReqBadHeader, ReqNegativeLength,
     ReqOldVersion, ReqZeroLengthThenBytes,
     Take(ReqPostHello, 18),                     \* POST /a HTTP/1.1\r\n
     Take(ReqPostHello, 10),                     \* POST /a HT
     SubSeq(ReqPostHello, 19, 37),               \* Content-Length: 5\r\n
     SubSeq(ReqPostHello, 19, 39),               \* Content-Length: 5\r\n\r\n
     SubSeq(ReqPostHello, 38, 39),               \* \r\n
     SubSeq(ReqPostHello, 38, 44),               \* \r\nhello
     SubSeq(ReqPostHello, 40, 44),               \* hello
     SubSeq(ReqPostHello, 40, 42),               \* hel
     SubSeq(ReqPostHello, 40, 44) \o ReqGetBare, \* helloGET / HTTP/1.1\r\n\r\n
     SubSeq(ReqGetHost, 18, 26),                 \* Host: h\r\n
     SubSeq(ReqGetHost, 27, 35),                 \* Host: i\r\n
     SubSeq(ReqBadHeader, 17, 34),               \* Host: h\r\nH@st: i\r\n
     SubSeq(ReqBadHeader, 26, 34),               \* H@st: i\r\n
     SubSeq(ReqNegativeLength, 17, 38)}          \* Content-Length: -1\r\n\r\n

InitCalls ==
    /\ src = <<>>
    /\ srcPos = 0
    /\ buf = <<>>
    /\ state = newRequest.state
    /\ RequestLine = newRequest.RequestLine
    /\ headers = newRequest.headers
    /\ body = newRequest.body
    /\ pc = "idle"
    /\ err = nil
    /\ total = 0
    /\ setLog = << >>
    /\ call = NoCall
    /\ ops = 0
    /\ NoHandlerNoLines

\* r.parse(data) is called: read := 0.  call.before is the Request at the call.
BeginParse ==
    /\ pc = "idle"
    /\ \E data \in CallBuffers :
           call' = [op |-> "parse", data |-> data, n |-> 0, err |-> nil,
                    kind |-> "cont", before |-> Req]
    /\ pc' = "parsing"
    /\ UNCHANGED <<src, srcPos, buf, state, RequestLine, headers, body, err, total, setLog, ops>>
    /\ UNCHANGED <<handlerVars, lineVars>>

\* One iteration of the for loop of parse.  call.n is the local read while the
\* loop runs and the returned count once it has returned.
ParseIteration ==
    /\ pc = "parsing"
    /\ \E s \in {parseStep(Req, call.data, call.n)} :
           /\ state' = s.r.state
           /\ RequestLine' = s.r.RequestLine
           /\ headers' = s.r.headers
           /\ body' = s.r.body
           /\ call' = [call EXCEPT !.n = s.n, !.err = s.err, !.kind = s.kind]
           /\ err' = s.err
           /\ pc' = CASE s.kind = "cont" -> "parsing"
                      [] s.kind = "return" -> "idle"
                      [] s.kind = "panic" -> "panic"
    /\ UNCHANGED <<src, srcPos, buf, total, setLog, ops>>
    /\ UNCHANGED <<handlerVars, lineVars>>

NextCalls == BeginParse \/ ParseIteration

SpecCalls == InitCalls /\ [][NextCalls]_vars

-----------------------------------------------------------------------------
(* Properties of Request.parse, checked under SpecCalls *)

\* the position of a parser state in the order Init, Headers, Body, Done
Rank(s) ==
    CASE s = StateInit -> 0
      [] s = StateHeaders -> 1
      [] s = StateBody -> 2
      [] s = StateDone -> 3

\* the Content-Length the header table declares: 0 when the header is absent or
\* its value is not an integer
Declared(h) == getInt(h, ContentLengthKey, 0)

\* in the Body step: the bytes of the buffer not yet consumed by this call
Available == Len(call.data) - call.n

\* in the Body step: the number of bytes the step takes from the buffer
ToRead == Min2(Declared(headers) - Len(body), Available)

(* C11: a parse call made when the parser is in Done, whatever the buffer,      *)
(* returns 0 bytes consumed and no error and leaves the state, the request      *)
(* line, the header table and the body as they were.                            *)
C11_DoneParseChangesNothing ==
    call.op = "parse" /\ call.before.state = StateDone =>
        /\ Req = call.before
        /\ call.n = 0
        /\ call.err = nil
        /\ pc = "idle" <=> call.kind = "return"
        /\ pc = "parsing" <=> call.kind = "cont"

\* a parser in Done with a body was offered a whole new request and has returned
C11_Witness ==
    /\ pc = "idle"
    /\ call.op = "parse"
    /\ call.before.state = StateDone
    /\ call.before.body # <<>>
    /\ call.data = ReqGetBare
    /\ call.kind = "return"

(* C12: over any sequence of parse calls with any buffers the state moves only  *)
(* forward in the order Init, Headers, Body, Done, one state at a time: it      *)
(* never goes back, never skips a state, and never leaves Done.                 *)
C12_StateOnlyMovesForward ==
    [][/\ Rank(state') \in {Rank(state), Rank(state) + 1}
       /\ state = StateDone => state' = StateDone]_vars

\* one call has taken a fresh parser through Headers and Body to Done
C12_Witness ==
    /\ call.op = "parse"
    /\ call.before.state = StateInit
    /\ call.data = ReqPostHello
    /\ state = StateDone
    /\ body # <<>>
    /\ pc = "idle"

(* C13: in every state of the Request the body is empty while the state is Init *)
(* or Headers, the body is never longer than the declared Content-Length, and   *)
(* in Done the body length equals the declared Content-Length.                  *)
C13_BodyWithinDeclaredLength ==
    /\ state \in {StateInit, StateHeaders} => body = <<>>
    /\ Len(body) <= Declared(headers)
    /\ state = StateDone => Len(body) = Declared(headers)

(* C16: every call of parse returns after finitely many iterations: no          *)
(* iteration of its loop continues with the Request and read as they were.      *)
C16_EveryIterationProgresses ==
    pc = "parsing" =>
        \A s \in {parseStep(Req, call.data, call.n)} :
            s.kind = "cont" => s.r # Req \/ s.n # call.n

(* C17: a parse call that returns an error reports 0 bytes consumed and leaves  *)
(* the state, the request line, the header table and the body as they were      *)
(* before the call.                                                             *)
C17_FailedParseChangesNothing ==
    pc = "idle" /\ call.op = "parse" /\ call.err # nil =>
        /\ call.n = 0
        /\ Req = call.before

(* C19: the Body step never fails, and the number of bytes it takes,            *)
(* min(Content-Length - body bytes so far, bytes available), is never negative  *)
(* and never more than the bytes available.                                     *)
C19_BodyStepCountInRange ==
    /\ pc # "panic"
    /\ pc = "parsing" /\ state = StateBody /\ Declared(headers) # 0 =>
          ToRead >= 0 /\ ToRead <= Available

-----------------------------------------------------------------------------
(* parseRequestLine on buffers built from tokens *)

RECURSIVE JoinSP(_)
\* the tokens joined by single spaces
JoinSP(toks) ==
    IF Len(toks) = 0 THEN <<>>
    ELSE IF Len(toks) = 1 THEN toks[1]
    ELSE toks[1] \o <<SP>> \o JoinSP(Tail(toks))

\* "HTTP/1.1"
HTTP11 == HTTP \o <<SLASH>> \o V11

\* G, /x, the empty token, HTTP/1.1, HTTP/1.0, HTTP/1.1/, http/1.1, HTTP1.1
LineTokens ==
    {<<71>>, <<47, 120>>, <<>>, HTTP11, <<72, 84, 84, 80, 47, 49, 46, 48>>,
     <<72, 84, 84, 80, 47, 49, 46, 49, 47>>, <<104, 116, 116, 112, 47, 49, 46, 49>>, <<72, 84, 84, 80, 49, 46, 49>>}

\* the most tokens a request line of the model has
MaxTokens == 4

TokenLists == UNION {[1..k -> LineTokens] : k \in 1..MaxTokens}

\* what follows the line in the buffer: nothing (the line is not terminated yet),
\* its CRLF, or its CRLF and the start of the header section ("Host: h\r\n")
LineTails == {<<>>, SEPARATOR, SEPARATOR \o <<72, 111, 115, 116, 58, 32, 104, 13, 10>>}

InitRL ==
    /\ \E toks \in TokenLists, tail \in LineTails :
          /\ buf = JoinSP(toks) \o tail
          /\ call = [op |-> "input", tokens |-> toks, terminated |-> tail # <<>>,
                     rl |-> NoRequestLine, n |-> 0, err |-> nil]
    /\ src = <<>>
    /\ srcPos = 0
    /\ state = newRequest.state
    /\ RequestLine = newRequest.RequestLine
    /\ headers = newRequest.headers
    /\ body = newRequest.body
    /\ pc = "call"
    /\ err = nil
    /\ total = 0
    /\ setLog = << >>
    /\ ops = 0
    /\ NoHandlerNoLines

CallParseRequestLine ==
    /\ pc = "call"
    /\ \E p \in {parseRequestLine(buf)} :
          /\ call' = [call EXCEPT !.op = "parseRequestLine", !.rl = p.rl, !.n = p.n, !.err = p.err]
          /\ err' = p.err
    /\ pc' = "called"
    /\ UNCHANGED <<src, srcPos, buf, state, RequestLine, headers, body, total, setLog, ops>>
    /\ UNCHANGED <<handlerVars, lineVars>>

NextRL == CallParseRequestLine

SpecRL == InitRL /\ [][NextRL]_vars

(* C8: a first line of exactly three space-separated tokens whose third is      *)
(* HTTP/1.1 gives method = first token, target = second token, version "1.1"    *)
(* and consumes the line and its CRLF; a first line with another number of      *)
(* tokens gives the malformed-request-line error and consumes nothing.          *)
C8_RequestLineThreeTokens ==
    (call.op = "parseRequestLine" /\ call.terminated) =>
        IF Len(call.tokens) = 3 /\ call.tokens[3] = HTTP11
        THEN /\ call.err = nil
             /\ call.rl = [Method |-> call.tokens[1], RequestTarget |-> call.tokens[2],
                           HttpVersion |-> V11]
             /\ call.n = Len(JoinSP(call.tokens)) + 2
        ELSE Len(call.tokens) # 3 =>
             /\ call.err = ERROR_MALFORMED_REQUESTLINE
             /\ call.n = 0

\* "G /x HTTP/1.1\r\nHost: h\r\n" parsed: 15 bytes consumed, the header bytes left
C8_Witness ==
    /\ call.op = "parseRequestLine"
    /\ call.tokens = <<<<71>>, <<47, 120>>, HTTP11>>
    /\ Len(buf) > call.n
    /\ call.n = 15
    /\ call.rl.Method = <<71>>

(* C9: a request line of three tokens whose third token is not exactly HTTP/1.1 *)
(* is rejected with the unsupported-version error, which is not the             *)
(* malformed-request-line error.                                                *)
C9_UnsupportedVersionError ==
    /\ ERROR_UNSUPPORTED_HTTP_VERSION # ERROR_MALFORMED_REQUESTLINE
    /\ (call.op = "parseRequestLine" /\ call.terminated
          /\ Len(call.tokens) = 3 /\ call.tokens[3] # HTTP11)
        => call.err = ERROR_UNSUPPORTED_HTTP_VERSION

-----------------------------------------------------------------------------
(* Headers.Parse fed a header block in chunks, the caller keeping the remainder *)

\* Host: h\r\n\r\n
BlkHost ==
    <<72, 111, 115, 116, 58, 32, 104, 13, 10, 13, 10>>

\* Host: h\r\nFoo:   bar  \r\n\r\n
BlkHostFoo ==
    <<72, 111, 115, 116, 58, 32, 104, 13, 10, 70, 111, 111, 58, 32, 32, 32, 98, 97, 114, 32, 32, 13, 10, 13, 10>>

\* Host: h\r\nHOST: i\r\n\r\n
BlkHostTwice ==
    <<72, 111, 115, 116, 58, 32, 104, 13, 10, 72, 79, 83, 84, 58, 32, 105, 13, 10, 13, 10>>

\* Host: h\r\na: 1\r\n\r\n
BlkHostLowerA ==
    <<72, 111, 115, 116, 58, 32, 104, 13, 10, 97, 58, 32, 49, 13, 10, 13, 10>>

\* \r\n
BlkEmpty ==
    <<13, 10>>

\* X-Id:\r\nHost: h\r\n\r\n
BlkEmptyValue ==
    <<88, 45, 73, 100, 58, 13, 10, 72, 111, 115, 116, 58, 32, 104, 13, 10, 13, 10>>

\* H@st: i\r\n\r\n
BlkBadChar ==
    <<72, 64, 115, 116, 58, 32, 105, 13, 10, 13, 10>>

\* Host: h\r\nH@st: i\r\n\r\n
BlkHostThenBadChar ==
    <<72, 111, 115, 116, 58, 32, 104, 13, 10, 72, 64, 115, 116, 58, 32, 105, 13, 10, 13, 10>>

\* Host : h\r\n\r\n
BlkSpaceBeforeColon ==
    <<72, 111, 115, 116, 32, 58, 32, 104, 13, 10, 13, 10>>

\* Host: h\r\nFoo : x\r\n\r\n
BlkHostThenSpaceBeforeColon ==
    <<72, 111, 115, 116, 58, 32, 104, 13, 10, 70, 111, 111, 32, 58, 32, 120, 13, 10, 13, 10>>

\* Host h\r\n\r\n
BlkNoColon ==
    <<72, 111, 115, 116, 32, 104, 13, 10, 13, 10>>

\* Host: h\r\nnocolon\r\n\r\n
BlkHostThenNoColon ==
    <<72, 111, 115, 116, 58, 32, 104, 13, 10, 110, 111, 99, 111, 108, 111, 110, 13, 10, 13, 10>>

\* Host: h\r\n\r\nH@st: i\r\n
BlkBadAfterEnd ==
    <<72, 111, 115, 116, 58, 32, 104, 13, 10, 13, 10, 72, 64, 115, 116, 58, 32, 105, 13, 10>>

\* Host: h\r\nFoo: ba
BlkUnfinished ==
    <<72, 111, 115, 116, 58, 32, 104, 13, 10, 70, 111, 111, 58, 32, 98, 97>>

\* Host: localhost:42069\r\nFoo:     barbar  \r\n
BlkTwoLinesNoEnd ==
    <<72, 111, 115, 116, 58, 32, 108, 111, 99, 97, 108, 104, 111, 115, 116, 58, 52, 50, 48, 54, 57, 13, 10, 70, 111, 111, 58, 32, 32, 32, 32, 32, 98, 97, 114, 98, 97, 114, 32, 32, 13, 10>>

\* field lines with RFC token names and no space before the colon, then the empty line
ValidBlocks ==
    {BlkHost, BlkHostFoo, BlkHostTwice, BlkHostLowerA, BlkEmpty, BlkEmptyValue}

OtherBlocks ==
    {BlkBadChar,
     BlkHostThenBadChar,
     BlkSpaceBeforeColon,
     BlkHostThenSpaceBeforeColon,
     BlkNoColon,
     BlkHostThenNoColon,
     BlkBadAfterEnd,
     BlkUnfinished,
     BlkTwoLinesNoEnd}

\* one-byte and two-byte field names to probe the name check with: every ASCII
\* byte but the colon, and Az, a0, Z9, B1, H@, -~
ProbeNames ==
    {<<c>> : c \in (0..127) \ {COLON}} \cup
    {<<65, 122>>, <<97, 48>>, <<90, 57>>, <<66, 49>>, <<72, 64>>, <<45, 126>>}

\* name: v\r\n
ProbeLine(name) == name \o <<COLON, SP, 118>> \o rn

ParseBlocks == ValidBlocks \cup OtherBlocks \cup {ProbeLine(name) : name \in ProbeNames}

InitParse ==
    /\ src \in ParseBlocks
    /\ srcPos = 0
    /\ buf = <<>>
    /\ headers = NewHeaders
    /\ total = 0
    /\ pc = "feed"
    /\ err = nil
    /\ call = [op |-> "none", data |-> <<>>, n |-> 0, done |-> FALSE, err |-> nil]
    /\ state = newRequest.state
    /\ RequestLine = newRequest.RequestLine
    /\ body = newRequest.body
    /\ setLog = << >>
    /\ ops = 0
    /\ NoHandlerNoLines

\* the sizes of the next chunk
ChunkSizes ==
    {n \in (1..MaxRead) \cup {Len(src) - srcPos} : n >= 1 /\ n <= Len(src) - srcPos}

\* The caller appends the next chunk to the bytes it kept, calls Parse on them and
\* keeps what Parse did not consume; it stops at an error or at headersComplete.
FeedParse ==
    /\ pc = "feed"
    /\ \E n \in ChunkSizes :
       \E filled \in {buf \o SubSeq(src, srcPos + 1, srcPos + n)} :
       \E p \in {Parse(headers, filled)} :
           /\ srcPos' = srcPos + n
           /\ headers' = p.h
           /\ call' = [op |-> "Parse", data |-> filled, n |-> p.n, done |-> p.done, err |-> p.err]
           /\ err' = p.err
           /\ total' = total + p.n
           /\ buf' = IF p.err = nil THEN Drop(filled, p.n) ELSE filled
           /\ pc' = IF p.err # nil THEN "failed" ELSE IF p.done THEN "complete" ELSE "feed"
    /\ UNCHANGED <<src, state, RequestLine, body, setLog, ops>>
    /\ UNCHANGED <<handlerVars, lineVars>>

NextParse == FeedParse

SpecParse == InitParse /\ [][NextParse]_vars

\* the RFC token class, as the claims state it: letters, digits and
\* ! # $ % & ' * + - . ^ _ ` | ~
IsRFCTokenChar(c) ==
    \/ c \in 65..90
    \/ c \in 97..122
    \/ c \in 48..57
    \/ c \in {33, 35, 36, 37, 38, 39, 42, 43, 45, 46, 94, 95, 96, 124, 126}

\* a field line with no colon, or with a byte outside the token class before its
\* first colon (a space directly before the colon is such a byte)
BadFieldLine(l) ==
    \/ Index(l, <<COLON>>) = -1
    \/ \E i \in 1..Index(l, <<COLON>>) : ~IsRFCTokenChar(l[i])
    \/ (Index(l, <<COLON>>) > 0 /\ l[Index(l, <<COLON>>)] = SP)

RECURSIVE HasBadLine(_)
\* some complete line of d that stands before the empty line is a bad field line
HasBadLine(d) ==
    IF Index(d, rn) <= 0 THEN FALSE
    ELSE BadFieldLine(Take(d, Index(d, rn))) \/ HasBadLine(Drop(d, Index(d, rn) + 2))

\* the chunked run is over: the empty line was consumed, or Parse failed
Finished == pc \in {"complete", "failed"}

(* C2: for every valid header block, the table and the total of bytes consumed  *)
(* after feeding the block in any sequence of chunks equal those of one Parse   *)
(* call on the whole block.                                                     *)
C2_ChunkedParseEqualsWhole ==
    (src \in ValidBlocks /\ Finished) =>
        /\ headers = Parse(NewHeaders, src).h
        /\ total = Parse(NewHeaders, src).n

(* C6: a Parse call on a buffer holding, before the empty line, a complete field *)
(* line without a colon, with a non-token byte in its name or with a space right *)
(* before the colon returns an error, 0 bytes consumed and headersComplete =     *)
(* false, also when valid field lines precede that line in the buffer.           *)
C6_BadLineErrorConsumesNothing ==
    (call.op = "Parse" /\ HasBadLine(call.data)) =>
        /\ call.err # nil
        /\ call.n = 0
        /\ call.done = FALSE

\* "Host: h\r\nFoo : x\r\n" in one call: host was stored, the call still reports 0
C6_Witness ==
    /\ src = BlkHostThenSpaceBeforeColon
    /\ call.op = "Parse"
    /\ call.err # nil
    /\ call.n = 0
    /\ total = 0
    /\ DOMAIN headers # {}

\* the offsets of d at which a line starts: 0 and the offset after each CRLF
LineStarts(d) == {0} \cup {k \in 2..Len(d) : SubSeq(d, k - 1, k) = rn}

\* the line starts of d at which the line is empty
EmptyLineStarts(d) == {k \in LineStarts(d) : k + 2 <= Len(d) /\ SubSeq(d, k + 1, k + 2) = rn}

\* the offset after the first empty line of d if d has one, else the offset
\* after the last complete line of d
EndOfCompleteLines(d) ==
    IF EmptyLineStarts(d) # {} THEN SetMin(EmptyLineStarts(d)) + 2
    ELSE SetMax(LineStarts(d))

\* the line of d that starts at offset k, without its CRLF
LineAt(d, k) == Take(Drop(d, k), Index(Drop(d, k), rn))

\* the key under which the field line l is stored
KeyOf(l) == ToLower(Take(l, Index(l, <<COLON>>)))

(* C20: the count a successful Parse call returns is the length, CRLFs          *)
(* included, of the complete field lines it stored, plus 2 if it met the empty  *)
(* line: it ends after the first empty line of the buffer, or else after the    *)
(* last complete line, never inside a line and never after the empty line; and  *)
(* headersComplete is true exactly when the buffer has an empty line.  The      *)
(* buffer "Host: localhost:42069\r\nFoo:     barbar  \r\n" gives 42 and false.  *)
C20_CountIsCompleteLines ==
    (call.op = "Parse" /\ call.err = nil) =>
        /\ call.n = EndOfCompleteLines(call.data)
        /\ call.done = (EmptyLineStarts(call.data) # {})
        /\ \A k \in LineStarts(call.data) :
              k < call.n - (IF call.done THEN 2 ELSE 0) =>
                  KeyOf(LineAt(call.data, k)) \in DOMAIN headers
        /\ call.data = BlkTwoLinesNoEnd => call.n = 42 /\ ~call.done

\* "Host: h\r\nFoo: ba" in one call: 9 bytes, the line Host, and not the 7 bytes
\* of the unfinished line
C20_Witness ==
    /\ call.op = "Parse"
    /\ call.err = nil
    /\ call.data = BlkUnfinished
    /\ call.n = 9
    /\ ~call.done
    /\ DOMAIN headers = {<<104, 111, 115, 116>>}

(* C7: a field name is accepted by Parse if and only if each of its bytes is a  *)
(* letter A-Z or a-z, a digit 0-9, or one of ! # $ % & ' * + - . ^ _ ` | ~.     *)
C7_NameAcceptedIffToken ==
    \A name \in ProbeNames :
        (src = ProbeLine(name) /\ srcPos = Len(src)) =>
            ((pc # "failed" /\ ToLower(name) \in DOMAIN headers)
                <=> \A i \in 1..Len(name) : IsRFCTokenChar(name[i]))

-----------------------------------------------------------------------------
(* A header table under sequences of Set, Get and Parse calls *)

\* Host, HOST, Foo
SetNames == {<<72, 111, 115, 116>>, <<72, 79, 83, 84>>, <<70, 111, 111>>}

\* a, b and the empty value
SetValues == {<<97>>, <<98>>, <<>>}

\* the names Get is called with: Host, HOST, host, Foo, foo, Miss
GetNames == SetNames \cup {<<104, 111, 115, 116>>, <<102, 111, 111>>, <<77, 105, 115, 115>>}

\* the field lines of the blocks Parse is called with: a name of SetNames, a
\* colon, the value with blanks around it
Fields == [name : SetNames, value : {<<97>>, <<>>}]

FieldLine(f) == f.name \o <<COLON, SP>> \o f.value \o <<SP>> \o rn

RECURSIVE BlockOf(_)
BlockOf(fs) == IF fs = <<>> THEN <<>> ELSE FieldLine(fs[1]) \o BlockOf(Tail(fs))

\* one field line, two field lines, and the same name three times
FieldLists ==
    {<<f>> : f \in Fields} \cup {<<f, g>> : f, g \in Fields} \cup
    {<<[name |-> n, value |-> <<97>>], [name |-> n, value |-> <<98>>],
       [name |-> n, value |-> <<97>>]>> : n \in SetNames}

\* the most calls made on one table
MaxOps == 3

\* a name folded to lower case, byte by byte (the claims' "normalized name")
Fold(name) == [i \in 1..Len(name) |-> IF name[i] \in 65..90 THEN name[i] + 32 ELSE name[i]]

\* the history after value was written under name
Logged(log, name, value) ==
    [k \in DOMAIN log \cup {Fold(name)} |->
        IF k = Fold(name)
        THEN (IF k \in DOMAIN log THEN log[k] ELSE <<>>) \o <<value>>
        ELSE log[k]]

RECURSIVE LoggedAll(_, _)
LoggedAll(log, fs) ==
    IF fs = <<>> THEN log ELSE LoggedAll(Logged(log, fs[1].name, fs[1].value), Tail(fs))

InitTable ==
    /\ headers = NewHeaders
    /\ setLog = << >>
    /\ call = [op |-> "none", name |-> <<>>, value |-> <<>>, present |-> FALSE]
    /\ ops = 0
    /\ NoHandlerNoLines
    /\ src = <<>>
    /\ srcPos = 0
    /\ buf = <<>>
    /\ state = newRequest.state
    /\ RequestLine = newRequest.RequestLine
    /\ body = newRequest.body
    /\ pc = "table"
    /\ err = nil
    /\ total = 0

DoSet ==
    /\ ops < MaxOps
    /\ \E name \in SetNames, value \in SetValues :
          /\ headers' = Set(headers, name, value)
          /\ setLog' = Logged(setLog, name, value)
          /\ call' = [op |-> "Set", name |-> name, value |-> value,
                      present |-> Fold(name) \in DOMAIN setLog]
    /\ ops' = ops + 1
    /\ UNCHANGED <<src, srcPos, buf, state, RequestLine, body, pc, err, total>>
    /\ UNCHANGED <<handlerVars, lineVars>>

DoGet ==
    /\ ops < MaxOps
    /\ \E name \in GetNames :
          call' = [op |-> "Get", name |-> name, value |-> Get(headers, name),
                   present |-> Fold(name) \in DOMAIN setLog]
    /\ ops' = ops + 1
    /\ UNCHANGED <<src, srcPos, buf, state, RequestLine, headers, body, pc, err, total, setLog>>
    /\ UNCHANGED <<handlerVars, lineVars>>

DoParse ==
    /\ ops < MaxOps
    /\ \E fs \in FieldLists :
       \E p \in {Parse(headers, BlockOf(fs))} :
          /\ headers' = p.h
          /\ setLog' = LoggedAll(setLog, fs)
          /\ call' = [op |-> "Parse", name |-> <<>>, value |-> <<>>, present |-> p.err = nil]
    /\ ops' = ops + 1
    /\ UNCHANGED <<src, srcPos, buf, state, RequestLine, body, pc, err, total>>
    /\ UNCHANGED <<handlerVars, lineVars>>

NextTable == DoSet \/ DoGet \/ DoParse

SpecTable == InitTable /\ [][NextTable]_vars

RECURSIVE JoinComma(_)
\* the values joined by a comma, no space
JoinComma(vs) ==
    IF Len(vs) = 0 THEN <<>>
    ELSE IF Len(vs) = 1 THEN vs[1]
    ELSE vs[1] \o <<44>> \o JoinComma(Tail(vs))

(* C3: the entry of every name written so far holds all the values written     *)
(* under it (by Set, or by the field lines of a parsed block), in call order,   *)
(* joined by a comma with no space.                                              *)
C3_RepeatedSetJoinsWithComma ==
    \A k \in DOMAIN setLog : Get(headers, k) = JoinComma(setLog[k])

(* C4: what Get returns tells a name that was never set from a name that is     *)
(* present: the result of a Get on a name of one kind differs from the result   *)
(* of Get on every name of the other kind.                                      *)
C4_GetTellsAbsentFromPresent ==
    call.op = "Get" =>
        \A other \in GetNames :
            (call.present # (Fold(other) \in DOMAIN setLog))
                => call.value # Get(headers, other)

(* C5: every key of the table is lower case, and Get with any spelling of a    *)
(* name that was written gives the entry written under it: the same value for  *)
(* every spelling, ending with the value written last.                          *)
C5_KeysLowerCaseLookupFoldsCase ==
    /\ \A k \in DOMAIN headers : \A i \in 1..Len(k) : k[i] \notin 65..90
    /\ \A k \in DOMAIN setLog : \A name \in GetNames :
          Fold(name) = k =>
              /\ Fold(name) \in DOMAIN headers
              /\ Get(headers, name) = headers[k]
              /\ \E pre \in {SubSeq(headers[k], 1, j) : j \in 0..Len(headers[k])} :
                    headers[k] = pre \o setLog[k][Len(setLog[k])]

\* Set("Host", "a") then Get("HOST") gave "a"
C5_Witness ==
    /\ call.op = "Get"
    /\ call.name = <<72, 79, 83, 84>>
    /\ call.value = <<97>>
    /\ DOMAIN setLog = {<<104, 111, 115, 116>>}
    /\ ops = 2


-----------------------------------------------------------------------------
(* The handler passed to server.Serve: routes, the chunked proxy, trailers *)

\* the status codes of package response, by name
StatusOK == "StatusOK"
StatusBadRequest == "StatusBadRequest"
StatusInternalServerError == "StatusInternalServerError"

\* respond200(), 400, 500: the HTML pages
respond200 ==
    <<60, 104, 116, 109, 108, 62, 10, 32, 32, 60, 104, 101, 97, 100, 62, 10, 32, 32, 32, 32,
      60, 116, 105, 116, 108, 101, 62, 50, 48, 48, 32, 79, 75, 60, 47, 116, 105, 116, 108, 101,
      62, 10, 32, 32, 60, 47, 104, 101, 97, 100, 62, 10, 32, 32, 60, 98, 111, 100, 121, 62, 10,
      32, 32, 32, 32, 60, 104, 49, 62, 83, 117, 99, 99, 101, 115, 115, 33, 60, 47, 104, 49, 62,
      10, 32, 32, 32, 32, 60, 112, 62, 89, 111, 117, 114, 32, 114, 101, 113, 117, 101, 115,
      116, 32, 119, 97, 115, 32, 97, 110, 32, 97, 98, 115, 111, 108, 117, 116, 101, 32, 98, 97,
      110, 103, 101, 114, 46, 60, 47, 112, 62, 10, 32, 32, 60, 47, 98, 111, 100, 121, 62, 10,
      60, 47, 104, 116, 109, 108, 62>>

respond400 ==
    <<60, 104, 116, 109, 108, 62, 10, 32, 32, 60, 104, 101, 97, 100, 62, 10, 32, 32, 32, 32,
      60, 116, 105, 116, 108, 101, 62, 52, 48, 48, 32, 66, 97, 100, 32, 82, 101, 113, 117, 101,
      115, 116, 60, 47, 116, 105, 116, 108, 101, 62, 10, 32, 32, 60, 47, 104, 101, 97, 100, 62,
      10, 32, 32, 60, 98, 111, 100, 121, 62, 10, 32, 32, 32, 32, 60, 104, 49, 62, 66, 97, 100,
      32, 82, 101, 113, 117, 101, 115, 116, 60, 47, 104, 49, 62, 10, 32, 32, 32, 32, 60, 112,
      62, 89, 111, 117, 114, 32, 114, 101, 113, 117, 101, 115, 116, 32, 104, 111, 110, 101,
      115, 116, 108, 121, 32, 107, 105, 110, 100, 97, 32, 115, 117, 99, 107, 101, 100, 46, 60,
      47, 112, 62, 10, 32, 32, 60, 47, 98, 111, 100, 121, 62, 10, 60, 47, 104, 116, 109, 108,
      62>>

respond500 ==
    <<60, 104, 116, 109, 108, 62, 10, 32, 32, 60, 104, 101, 97, 100, 62, 10, 32, 32, 32, 32,
      60, 116, 105, 116, 108, 101, 62, 53, 48, 48, 32, 73, 110, 116, 101, 114, 110, 97, 108,
      32, 83, 101, 114, 118, 101, 114, 32, 69, 114, 114, 111, 114, 60, 47, 116, 105, 116, 108,
      101, 62, 10, 32, 32, 60, 47, 104, 101, 97, 100, 62, 10, 32, 32, 60, 98, 111, 100, 121,
      62, 10, 32, 32, 32, 32, 60, 104, 49, 62, 73, 110, 116, 101, 114, 110, 97, 108, 32, 83,
      101, 114, 118, 101, 114, 32, 69, 114, 114, 111, 114, 60, 47, 104, 49, 62, 10, 32, 32, 32,
      32, 60, 112, 62, 79, 107, 97, 121, 44, 32, 121, 111, 117, 32, 107, 110, 111, 119, 32,
      119, 104, 97, 116, 63, 32, 84, 104, 105, 115, 32, 111, 110, 101, 32, 105, 115, 32, 111,
      110, 32, 109, 101, 46, 60, 47, 112, 62, 10, 32, 32, 60, 47, 98, 111, 100, 121, 62, 10,
      60, 47, 104, 116, 109, 108, 62>>

\* the digit d of a base up to 16, as fmt prints it
DigitChar(d) == IF d < 10 THEN Digit0 + d ELSE LowerA + (d - 10)

RECURSIVE FormatBase(_, _)
\* the digits of n >= 0 in base b, most significant first
FormatBase(n, b) ==
    IF n < b THEN <<DigitChar(n)>>
    ELSE FormatBase(n \div b, b) \o <<DigitChar(n % b)>>

\* fmt.Sprintf("%d", n)
FormatDec(n) == FormatBase(n, 10)

\* fmt.Appendf(nil, "%x\r\n", n)
FormatHexLine(n) == FormatBase(n, 16) \o rn

\* toStr(sha256.Sum256(b)): the digest is not computed; it is kept as the term
\* "sha256:" followed by the bytes it is the digest of
toStr(b) == <<115, 104, 97, 50, 53, 54, 58>> \o b

\* the header names and values the handler uses
HContentLength == <<67, 111, 110, 116, 101, 110, 116, 45, 108, 101, 110, 103, 116, 104>>
HContentType == <<67, 111, 110, 116, 101, 110, 116, 45, 116, 121, 112, 101>>
HTransferEncoding == <<84, 114, 97, 110, 115, 102, 101, 114, 45, 101, 110, 99, 111, 100, 105, 110, 103>>
HTrailer == <<84, 114, 97, 105, 108, 101, 114>>
HXContentSHA256 == <<88, 45, 67, 111, 110, 116, 101, 110, 116, 45, 83, 72, 65, 50, 53, 54>>
HXContentLength == <<88, 45, 67, 111, 110, 116, 101, 110, 116, 45, 76, 101, 110, 103, 116, 104>>
VChunked == <<99, 104, 117, 110, 107, 101, 100>>
VTextPlain == <<116, 101, 120, 116, 47, 112, 108, 97, 105, 110>>
VTextHtml == <<116, 101, 120, 116, 47, 104, 116, 109, 108>>

\* the 0-length chunk that ends a chunked body: "0\r\n"
Terminator == <<Digit0>> \o rn

\* response.GetDefaultHeaders(contentLen): a table that has Content-Length and
\* Content-Type entries, which the handler deletes and replaces
GetDefaultHeaders(contentLen) ==
    Set(Set(NewHeaders, HContentLength, FormatDec(contentLen)), HContentType, VTextPlain)

\* Headers.Replace: the entry of the name becomes the value
Replace(h, name, value) ==
    [k \in DOMAIN h \cup {ToLower(name)} |-> IF k = ToLower(name) THEN value ELSE h[k]]

\* Headers.Delete: the entry of the name is removed
Delete(h, name) == [k \in DOMAIN h \ {ToLower(name)} |-> h[k]]

\* strings.HasPrefix
HasPrefix(s, prefix) == Len(s) >= Len(prefix) /\ Take(s, Len(prefix)) = prefix

\* the calls on the response.Writer, as they are logged in written
WriteStatusLine(code) == [op |-> "WriteStatusLine", arg |-> code]
WriteHeaders(h) == [op |-> "WriteHeaders", arg |-> h]
WriteBody(p) == [op |-> "WriteBody", arg |-> p]

\* the response headers of the chunked route
ChunkedHeaders(h) ==
    Set(Set(Replace(Set(Delete(h, HContentLength), HTransferEncoding, VChunked),
                    HContentType, VTextPlain),
            HTrailer, HXContentSHA256),
        HTrailer, HXContentLength)

\* the response headers of the other routes
PlainHeaders(h, b) ==
    Replace(Replace(h, HContentLength, FormatDec(Len(b))), HContentType, VTextHtml)

\* the trailer table of the chunked route
TrailerOf(full) ==
    Set(Set(NewHeaders, HXContentSHA256, toStr(full)), HXContentLength, FormatDec(Len(full)))

\* the writer calls of a response that is not chunked
PlainCalls(status, h, b) == <<WriteStatusLine(status), WriteHeaders(h), WriteBody(b)>>

\* the writer calls for one chunk of upstream data
ChunkCalls(data) ==
    <<WriteBody(FormatHexLine(Len(data))), WriteBody(data), WriteBody(rn)>>

\* a handler that sends the trailers before the terminating chunk
EndCallsTrailersFirst(full) == <<WriteHeaders(TrailerOf(full)), WriteBody(Terminator)>>

\* the writer calls after the upstream body: the terminating chunk, the trailers
EndCalls(full) == <<WriteBody(Terminator), WriteHeaders(TrailerOf(full))>>

\* data := make([]byte, 1024) in the loop that forwards the upstream body
HandlerBufSize == 1024

\* the request targets: /, /yourproblem, /myproblem, /httpbin/get, /httpbin, /x
TargetRoot == <<47>>
TargetYourProblem == <<47, 121, 111, 117, 114, 112, 114, 111, 98, 108, 101, 109>>
TargetMyProblem == <<47, 109, 121, 112, 114, 111, 98, 108, 101, 109>>
TargetHttpbinGet == <<47, 104, 116, 116, 112, 98, 105, 110, 47, 103, 101, 116>>
TargetHttpbin == <<47, 104, 116, 116, 112, 98, 105, 110>>
TargetOther == <<47, 120>>
PrefixHttpbin == <<47, 104, 116, 116, 112, 98, 105, 110, 47>>

Targets ==
    {TargetRoot, TargetYourProblem, TargetMyProblem, TargetHttpbinGet, TargetHttpbin, TargetOther}

\* the bodies the upstream answers with: empty, "hi", "0\r\n", "hello", and
\* "abcdefghijklmnopq" (17 bytes, two hex digits)
UpstreamBodies ==
    {<<>>, <<104, 105>>, <<48, 13, 10>>, <<104, 101, 108, 108, 111>>,
     <<97, 98, 99, 100, 101, 102, 103, 104, 105, 106, 107, 108, 109, 110, 111, 112, 113>>}

\* http.Get failed
ErrFetch == "Get: dial tcp: connection refused"

\* the request is for the chunked proxy route
Proxied == HasPrefix(RequestLine.RequestTarget, PrefixHttpbin)

\* the status and body of the routes that are not chunked; the proxy route
\* comes here when http.Get has failed
RouteStatus ==
    IF Proxied THEN StatusInternalServerError
    ELSE IF RequestLine.RequestTarget = TargetYourProblem THEN StatusBadRequest
    ELSE IF RequestLine.RequestTarget = TargetMyProblem THEN StatusInternalServerError
    ELSE StatusOK

RouteBody ==
    IF Proxied THEN respond500
    ELSE IF RequestLine.RequestTarget = TargetYourProblem THEN respond400
    ELSE IF RequestLine.RequestTarget = TargetMyProblem THEN respond500
    ELSE respond200

\* the handler is called with a completed Request; src is the upstream body
InitHandler ==
    /\ RequestLine \in {[Method |-> <<71, 69, 84>>, RequestTarget |-> t, HttpVersion |-> V11] :
                           t \in Targets}
    /\ src \in UpstreamBodies
    /\ ~Proxied => src = <<>>
    /\ srcPos = 0
    /\ buf = <<>>
    /\ state = StateDone
    /\ headers = NewHeaders
    /\ body = <<>>
    /\ pc = "handler"
    /\ err = nil
    /\ total = 0
    /\ setLog = << >>
    /\ call = NoCall
    /\ ops = 0
    /\ written = <<>>
    /\ fullBody = <<>>
    /\ out = NewChannel
    /\ str = <<>>
    /\ sent = <<>>
    /\ lines = <<>>
    /\ cpc = "none"

\* The handler from its entry to its return, or to the loop that forwards the
\* upstream body when the route is the proxy and http.Get succeeded.
Handle ==
    /\ pc = "handler"
    /\ \E fetched \in (IF Proxied THEN BOOLEAN ELSE {FALSE}) :
           IF fetched
           THEN /\ headers' = ChunkedHeaders(GetDefaultHeaders(0))
                /\ written' = <<WriteStatusLine(StatusOK),
                                WriteHeaders(ChunkedHeaders(GetDefaultHeaders(0)))>>
                /\ err' = nil
                /\ pc' = "stream"
           ELSE /\ headers' = PlainHeaders(GetDefaultHeaders(0), RouteBody)
                /\ written' = PlainCalls(RouteStatus,
                                         PlainHeaders(GetDefaultHeaders(0), RouteBody),
                                         RouteBody)
                /\ err' = IF Proxied THEN ErrFetch ELSE nil
                /\ pc' = "done"
    /\ UNCHANGED <<src, srcPos, buf, state, RequestLine, body, total, setLog, call, ops>>
    /\ UNCHANGED <<fullBody, lineVars>>

\* the byte counts res.Body.Read(data) may return with a nil error
HandlerReadSizes ==
    {n \in (1..MaxRead) \cup {Min2(Len(src) - srcPos, HandlerBufSize)} :
        n >= 1 /\ n <= Len(src) - srcPos /\ n <= HandlerBufSize}

\* One iteration of the forwarding loop in which Read returns bytes and no error.
StreamChunk ==
    /\ pc = "stream"
    /\ \E n \in HandlerReadSizes :
       \E data \in {SubSeq(src, srcPos + 1, srcPos + n)} :
           /\ srcPos' = srcPos + n
           /\ fullBody' = fullBody \o data
           /\ written' = written \o ChunkCalls(data)
    /\ UNCHANGED <<src, buf, state, RequestLine, headers, body, pc, err, total, setLog, call, ops>>
    /\ UNCHANGED lineVars

\* The iteration in which Read returns an error (io.EOF once the upstream body is
\* delivered, or a read error at any point), with or without bytes: the loop
\* breaks without looking at n, and the handler ends the chunked body.
StreamEnd ==
    /\ pc = "stream"
    /\ \E k \in 0..Min2(Len(src) - srcPos, MaxRead) :
       \E e \in {ErrRead} \cup (IF srcPos + k = Len(src) THEN {EOF} ELSE {}) :
           /\ srcPos' = srcPos + k
           /\ err' = e
    /\ written' = written \o EndCalls(fullBody)
    /\ pc' = "done"
    /\ UNCHANGED <<src, buf, state, RequestLine, headers, body, total, setLog, call, ops>>
    /\ UNCHANGED <<fullBody, lineVars>>

NextHandler == Handle \/ StreamChunk \/ StreamEnd

SpecHandler == InitHandler /\ [][NextHandler]_vars

-----------------------------------------------------------------------------
(* Properties of the handler, checked under SpecHandler *)

\* the response is the chunked one
Chunked == ToLower(HTransferEncoding) \in DOMAIN headers

\* the indices of written that hold a call of the operation
CallsOf(op) == {i \in 1..Len(written) : written[i].op = op}

\* the number of data chunks written: three WriteBody calls each, from index 3
ChunksWritten == (Len(written) - 2 - (IF pc = "done" THEN 2 ELSE 0)) \div 3

(* C21: on every route and for every outcome of the upstream fetch the writer   *)
(* calls come in the order WriteStatusLine once, WriteHeaders with the response *)
(* headers once, then WriteBody calls; a plain response has one WriteBody; a    *)
(* chunked one has three WriteBody calls per data chunk (size line, data,       *)
(* CRLF), then the terminator "0\r\n", then one WriteHeaders with the trailers, *)
(* and nothing after it.                                                        *)
C21_WriterCallsInOrder ==
    pc # "handler" =>
        /\ Len(written) >= 2
        /\ CallsOf("WriteStatusLine") = {1}
        /\ written[2] = WriteHeaders(headers)
        /\ ~Chunked =>
              /\ pc = "done"
              /\ Len(written) = 3
              /\ written[3].op = "WriteBody"
        /\ Chunked =>
              /\ Len(written) = 2 + 3 * ChunksWritten + (IF pc = "done" THEN 2 ELSE 0)
              /\ \A j \in 1..ChunksWritten :
                    /\ written[3 * j].op = "WriteBody"
                    /\ written[3 * j + 1].op = "WriteBody"
                    /\ written[3 * j].arg = FormatHexLine(Len(written[3 * j + 1].arg))
                    /\ Len(written[3 * j + 1].arg) > 0
                    /\ written[3 * j + 2] = WriteBody(rn)
              /\ pc = "stream" => CallsOf("WriteHeaders") = {2}
              /\ pc = "done" =>
                    /\ written[Len(written) - 1] = WriteBody(Terminator)
                    /\ written[Len(written)].op = "WriteHeaders"
                    /\ DOMAIN written[Len(written)].arg =
                          {ToLower(HXContentSHA256), ToLower(HXContentLength)}
                    /\ CallsOf("WriteHeaders") = {2, Len(written)}

\* a chunked response of at least two data chunks has been ended with terminator
\* and trailers
C21_Witness ==
    /\ pc = "done"
    /\ Chunked
    /\ ChunksWritten >= 2
    /\ written[Len(written)].op = "WriteHeaders"

\* the name is found in the value of a header that lists field names
NamedIn(name, value) == Index(ToLower(value), ToLower(name)) # -1

(* C22: on the chunked route every field name of the trailer table written      *)
(* after the terminator is named in the value of the Trailer header sent with   *)
(* the response headers.                                                        *)
C22_TrailerNamesAnnounced ==
    (Chunked /\ pc = "done") =>
        \A name \in DOMAIN written[Len(written)].arg :
            NamedIn(name, Get(written[2].arg, HTrailer))

-----------------------------------------------------------------------------
(* getLinesChannel: a goroutine that reads 8 bytes at a time and sends lines *)
(* on a 1-slot channel, and the consumer that ranges over the channel        *)

\* data := make([]byte, 8)
LineBufSize == 8

\* cap(out): make(chan string, 1)
ChanCap == 1

\* the contents of the source: empty, "abc", "\n", "a\nb\n", "ab\ncd", "a\n\nb",
\* "x\ny\nz", "abcdefghij\nk\n"
LineSources ==
    {<<>>,
     <<97, 98, 99>>,
     <<10>>,
     <<97, 10, 98, 10>>,
     <<97, 98, 10, 99, 100>>,
     <<97, 10, 10, 98>>,
     <<120, 10, 121, 10, 122>>,
     <<97, 98, 99, 100, 101, 102, 103, 104, 105, 106, 10, 107, 10>>}

InitLines ==
    /\ src \in LineSources
    /\ srcPos = 0
    /\ buf = <<>>
    /\ state = newRequest.state
    /\ RequestLine = newRequest.RequestLine
    /\ headers = newRequest.headers
    /\ body = newRequest.body
    /\ pc = "read"
    /\ err = nil
    /\ total = 0
    /\ setLog = << >>
    /\ call = NoCall
    /\ ops = 0
    /\ written = <<>>
    /\ fullBody = <<>>
    /\ out = NewChannel
    /\ str = <<>>
    /\ sent = <<>>
    /\ lines = <<>>
    /\ cpc = "range"

\* the byte counts f.Read(data) may return with a nil error
LineReadSizes == {n \in 1..LineBufSize : n <= Len(src) - srcPos}

\* out <- s: the channel after the send
Send(ch, s) == [ch EXCEPT !.q = Append(@, s)]

\* f.Read returns n bytes: up to the first newline they join str, which is then
\* to be sent; what follows that newline in data is assigned to data and not
\* used again.  Without a newline all of data joins str.
LRead ==
    /\ pc = "read"
    /\ \E n \in LineReadSizes :
       \E data \in {SubSeq(src, srcPos + 1, srcPos + n)} :
       \E i \in {Index(data, <<LF>>)} :
           /\ srcPos' = srcPos + n
           /\ str' = IF i # -1 THEN str \o Take(data, i) ELSE str \o data
           /\ pc' = IF i # -1 THEN "send" ELSE "read"
    /\ UNCHANGED <<src, buf, state, RequestLine, headers, body, err, total, setLog, call, ops>>
    /\ UNCHANGED <<handlerVars, out, sent, lines, cpc>>

\* f.Read returns an error: io.EOF at the end of the source, or a read error
LReadErr ==
    /\ pc = "read"
    /\ err' \in {ErrRead} \cup (IF srcPos = Len(src) THEN {EOF} ELSE {})
    /\ pc' = "tail"
    /\ UNCHANGED <<src, srcPos, buf, state, RequestLine, headers, body, total, setLog, call, ops>>
    /\ UNCHANGED <<handlerVars, lineVars>>

\* out <- str; str = "" in the loop: blocks while the slot is taken, panics on a
\* closed channel
LSend ==
    /\ pc = "send"
    /\ out.closes > 0 \/ Len(out.q) < ChanCap
    /\ IF out.closes > 0
       THEN pc' = "panic" /\ UNCHANGED <<out, str, sent>>
       ELSE /\ out' = Send(out, str)
            /\ sent' = Append(sent, str)
            /\ str' = <<>>
            /\ pc' = "read"
    /\ UNCHANGED <<src, srcPos, buf, state, RequestLine, headers, body, err, total, setLog, call, ops>>
    /\ UNCHANGED <<handlerVars, lines, cpc>>

\* after the loop: if len(str) != 0 { out <- str }
LTail ==
    /\ pc = "tail"
    /\ str = <<>> \/ Len(out.q) < ChanCap
    /\ IF str = <<>>
       THEN UNCHANGED <<out, sent>>
       ELSE out' = Send(out, str) /\ sent' = Append(sent, str)
    /\ pc' = "close"
    /\ UNCHANGED <<src, srcPos, buf, state, RequestLine, headers, body, err, total, setLog, call, ops>>
    /\ UNCHANGED <<handlerVars, str, lines, cpc>>

\* a goroutine that returns without closing the channel
LCloseForgotten ==
    /\ pc = "close"
    /\ pc' = "exited"
    /\ UNCHANGED <<src, srcPos, buf, state, RequestLine, headers, body, err, total, setLog, call, ops>>
    /\ UNCHANGED <<handlerVars, lineVars>>

\* the deferred calls: close(out), then f.Close()
LClose ==
    /\ pc = "close"
    /\ out' = [out EXCEPT !.closes = @ + 1]
    /\ pc' = "exited"
    /\ UNCHANGED <<src, srcPos, buf, state, RequestLine, headers, body, err, total, setLog, call, ops>>
    /\ UNCHANGED <<handlerVars, str, sent, lines, cpc>>

\* for line := range lines: one string is received
CRecv ==
    /\ cpc = "range"
    /\ out.q # <<>>
    /\ lines' = Append(lines, Head(out.q))
    /\ out' = [out EXCEPT !.q = Tail(@)]
    /\ UNCHANGED <<src, srcPos, buf, state, RequestLine, headers, body, pc, err, total, setLog, call, ops>>
    /\ UNCHANGED <<handlerVars, str, sent, cpc>>

\* the channel is closed and empty: the range loop ends
CDone ==
    /\ cpc = "range"
    /\ out.q = <<>>
    /\ out.closes > 0
    /\ cpc' = "done"
    /\ UNCHANGED <<src, srcPos, buf, state, RequestLine, headers, body, pc, err, total, setLog, call, ops>>
    /\ UNCHANGED <<handlerVars, out, str, sent, lines>>

Producer == LRead \/ LReadErr \/ LSend \/ LTail \/ LClose

Consumer == CRecv \/ CDone

NextLines == Producer \/ Consumer

SpecLines == InitLines /\ [][NextLines]_vars

\* the Go scheduler runs a goroutine that can take a step
SpecLinesFair == SpecLines /\ WF_vars(Producer) /\ WF_vars(Consumer)

-----------------------------------------------------------------------------
(* Properties of getLinesChannel, checked under SpecLines and SpecLinesFair *)

RECURSIVE LinesOf(_)
\* the newline-separated lines of b: the pieces that end at a newline, and the
\* piece after the last newline if it is not empty
LinesOf(b) ==
    IF Index(b, <<LF>>) = -1 THEN (IF b = <<>> THEN <<>> ELSE <<b>>)
    ELSE <<Take(b, Index(b, <<LF>>))>> \o LinesOf(Drop(b, Index(b, <<LF>>) + 1))

\* producer and consumer have both finished
LinesFinished == pc = "exited" /\ cpc = "done"

(* C24: when the consumer's loop has ended, the strings it received are, in     *)
(* order, the newline-separated lines of the bytes read from the source, for    *)
(* every source content and every sequence of read sizes of 1 to 8 bytes.       *)
C24_LinesAreTheLinesRead ==
    cpc = "done" => lines = LinesOf(Take(src, srcPos))

\* what has to hold in every state of producer and consumer
LinesSafe ==
    /\ pc # "panic"
    /\ out.closes <= 1
    /\ out.closes = 1 => pc = "exited"
    /\ Len(out.q) <= ChanCap
    /\ lines \o out.q = sent
    /\ cpc = "done" => out.closes = 1 /\ lines = sent

(* C25: producer and consumer never deadlock (unless both have finished, one of *)
(* them can take a step); the channel is closed exactly once, after the last    *)
(* send, and nothing is sent on it afterwards; the consumer receives the        *)
(* strings in the order they were sent; and once the source has reported EOF or *)
(* an error, the consumer's range loop ends.                                    *)
C25_NoDeadlockClosedOnceInOrder ==
    /\ [](LinesSafe /\ (~LinesFinished => ENABLED NextLines))
    /\ (err # nil) ~> (cpc = "done")

\* the consumer's loop has ended after three strings, the last one sent after the
\* source reported EOF
C25_Witness ==
    /\ LinesFinished
    /\ err = EOF
    /\ src = <<120, 10, 121, 10, 122>>
    /\ lines = <<<<120>>, <<121>>, <<122>>>>
    /\ out.closes = 1

====
